---- MODULE Spec2Model ----
(***************************************************************************)
(* Model of fetchEventSource (taro-fetch-event-source): the SSE session    *)
(* controller (connect / abort / scheduleRetry), the chunk handler with    *)
(* its line parser, and the two byte decoders (the platform TextDecoder    *)
(* used by src/index.ts and the manual uint8ArrayToUtf8 of the variant).   *)
(*                                                                         *)
(* Strings are sequences of UTF-16 code units (integers); an optional      *)
(* value (undefined | string, null | handle) is <<>> or <<v>>.             *)
(***************************************************************************)
EXTENDS Integers, Sequences, FiniteSets, TLC

----------------------------------------------------------------------------
(* Characters the parser tests for. *)
NL == 10
CR == 13
SP == 32
COLON == 58
REPLACEMENT == 65533

(* Field names of the switch in handleChunk. *)
FieldEvent == <<101, 118, 101, 110, 116>>
FieldData == <<100, 97, 116, 97>>
FieldId == <<105, 100>>

DefaultRetryInterval == 1000
LastEventId == "last-event-id"

Undefined == <<>>
Some(v) == <<v>>
IsDefined(o) == o # <<>>

Last(s) == s[Len(s)]
Front(s) == SubSeq(s, 1, Len(s) - 1)

----------------------------------------------------------------------------
(* String primitives of JavaScript used by handleChunk. *)

RECURSIVE SplitAcc(_, _, _, _)
SplitAcc(s, i, cur, acc) ==
    IF i > Len(s) THEN Append(acc, cur)
    ELSE IF s[i] = NL THEN SplitAcc(s, i + 1, <<>>, Append(acc, cur))
    ELSE SplitAcc(s, i + 1, Append(cur, s[i]), acc)

(* buffer.split("\n"): always at least one segment. *)
Split(s) == SplitAcc(s, 1, <<>>, <<>>)

(* line.indexOf(":"), 0-based, -1 when absent. *)
IndexOfColon(line) ==
    IF \E i \in 1..Len(line) : line[i] = COLON
    THEN (CHOOSE i \in 1..Len(line) :
            line[i] = COLON /\ \A j \in 1..(i - 1) : line[j] # COLON) - 1
    ELSE -1

(* line.substring(a, b) with 0-based a, exclusive b. *)
Substring(line, a, b) == SubSeq(line, a + 1, b)

StartsWith(line, c) == Len(line) > 0 /\ line[1] = c

----------------------------------------------------------------------------
(* Byte decoders.  A code point above the BMP becomes a surrogate pair, as *)
(* in a JavaScript string.                                                 *)

IsCont(b) == b >= 128 /\ b < 192

ToUtf16(cp) ==
    IF cp > 65535
    THEN <<55296 + ((cp - 65536) \div 1024), 56320 + ((cp - 65536) % 1024)>>
    ELSE <<cp>>

(* new TextDecoder("utf-8").decode(bytes): the non-streaming UTF-8 decode  *)
(* (fatal = false, ignoreBOM = false).  d is the decoder state: cp the     *)
(* code point being built, need/seen the continuation bytes expected and   *)
(* read, lo/hi the range allowed for the next continuation byte.           *)
DecoderStart == [cp |-> 0, need |-> 0, seen |-> 0, lo |-> 128, hi |-> 191]

RECURSIVE TextDecoderRun(_, _, _, _)
TextDecoderRun(bytes, i, d, out) ==
    IF i > Len(bytes)
    THEN IF d.need # 0 THEN Append(out, REPLACEMENT) ELSE out
    ELSE LET b == bytes[i] IN
      IF d.need = 0 THEN
        IF b < 128 THEN TextDecoderRun(bytes, i + 1, d, Append(out, b))
        ELSE IF b >= 194 /\ b <= 223 THEN
            TextDecoderRun(bytes, i + 1,
                [DecoderStart EXCEPT !.need = 1, !.cp = b % 32], out)
        ELSE IF b >= 224 /\ b <= 239 THEN
            TextDecoderRun(bytes, i + 1,
                [DecoderStart EXCEPT !.need = 2, !.cp = b % 16,
                    !.lo = IF b = 224 THEN 160 ELSE 128,
                    !.hi = IF b = 237 THEN 159 ELSE 191], out)
        ELSE IF b >= 240 /\ b <= 244 THEN
            TextDecoderRun(bytes, i + 1,
                [DecoderStart EXCEPT !.need = 3, !.cp = b % 8,
                    !.lo = IF b = 240 THEN 144 ELSE 128,
                    !.hi = IF b = 244 THEN 143 ELSE 191], out)
        ELSE TextDecoderRun(bytes, i + 1, d, Append(out, REPLACEMENT))
      ELSE IF b < d.lo \/ b > d.hi THEN
        \* the offending byte is handed back to the stream
        TextDecoderRun(bytes, i, DecoderStart, Append(out, REPLACEMENT))
      ELSE LET cp2 == d.cp * 64 + (b % 64) IN
        IF d.seen + 1 = d.need
        THEN TextDecoderRun(bytes, i + 1, DecoderStart, out \o ToUtf16(cp2))
        ELSE TextDecoderRun(bytes, i + 1,
                [d EXCEPT !.cp = cp2, !.seen = d.seen + 1,
                          !.lo = 128, !.hi = 191], out)

TextDecoderDecode(bytes) ==
    LET out == TextDecoderRun(bytes, 1, DecoderStart, <<>>) IN
    IF Len(out) > 0 /\ out[1] = 65279 THEN Tail(out) ELSE out

(* uint8ArrayToUtf8 of the variant: i is the 1-based position of byte.     *)
RECURSIVE Uint8Loop(_, _, _)
Uint8Loop(a, i, result) ==
    IF i > Len(a) THEN result
    ELSE LET byte == a[i] IN
      IF byte < 128 THEN Uint8Loop(a, i + 1, Append(result, byte))
      ELSE IF byte >= 194 /\ byte <= 223 THEN
        IF i + 1 > Len(a) THEN result
        ELSE IF ~IsCont(a[i + 1]) THEN result
        ELSE Uint8Loop(a, i + 2,
                Append(result, (byte % 32) * 64 + (a[i + 1] % 64)))
      ELSE IF byte >= 224 /\ byte <= 239 THEN
        IF i + 2 > Len(a) THEN result
        ELSE IF ~IsCont(a[i + 1]) \/ ~IsCont(a[i + 2]) THEN result
        ELSE Uint8Loop(a, i + 3,
                Append(result, (byte % 16) * 4096 + (a[i + 1] % 64) * 64
                                 + (a[i + 2] % 64)))
      ELSE IF byte >= 240 /\ byte <= 244 THEN
        IF i + 3 > Len(a) THEN result
        ELSE IF ~IsCont(a[i + 1]) \/ ~IsCont(a[i + 2]) \/ ~IsCont(a[i + 3])
        THEN result
        ELSE LET codepoint == (byte % 8) * 262144 + (a[i + 1] % 64) * 4096
                                + (a[i + 2] % 64) * 64 + (a[i + 3] % 64) IN
             Uint8Loop(a, i + 4,
                result \o (IF codepoint > 65535
                           THEN <<(55296 + ((codepoint - 65536) \div 1024)) % 65536,
                                  56320 + ((codepoint - 65536) % 1024)>>
                           ELSE <<codepoint>>))
      ELSE Uint8Loop(a, i + 1, result)

uint8ArrayToUtf8(uint8Array) == Uint8Loop(uint8Array, 1, <<>>)

(* The decoder a build uses: "TextDecoder" (src/index.ts) or "manual". *)
Decode(kind, bytes) ==
    IF kind = "manual" THEN uint8ArrayToUtf8(bytes) ELSE TextDecoderDecode(bytes)

----------------------------------------------------------------------------
(* handleChunk.  The user's onmessage is an input: cb.throwAt = k makes    *)
(* the k-th invocation within this chunk raise synchronously, cb.abortAt   *)
(* = k makes it call abort() (0: never).                                   *)

EmptyMessage == [id |-> Undefined, event |-> Undefined, data |-> Undefined]

NoCb == [throwAt |-> 0, abortAt |-> 0]

(* The field line branch: split at the first colon, strip one space,      *)
(* dispatch on the field name.                                             *)
ParseField(message, line) ==
    LET colonIndex == IndexOfColon(line)
        field == IF colonIndex > 0 THEN Substring(line, 0, colonIndex) ELSE line
        raw == IF colonIndex > 0
               THEN Substring(line, colonIndex + 1, Len(line)) ELSE <<>>
        value == IF StartsWith(raw, SP) THEN Tail(raw) ELSE raw
    IN  IF field = FieldEvent THEN [message EXCEPT !.event = Some(value)]
        ELSE IF field = FieldData THEN
            [message EXCEPT !.data =
                Some((IF IsDefined(message.data) THEN message.data[1] ELSE <<>>)
                     \o value \o <<NL>>)]
        ELSE IF field = FieldId THEN [message EXCEPT !.id = Some(value)]
        ELSE message

(* the blank-line branch testing message.id !== undefined instead of its   *)
(* truthiness: an empty id overwrites lastEventId                          *)
EndOfMessage_AnyId(st, cb) ==
    IF IsDefined(st.message.data)
    THEN LET n == Len(st.delivered) + 1
             msg == [id |-> st.message.id, event |-> st.message.event,
                     data |-> st.message.data[1]]
             raised == (n = cb.throwAt)
         IN  [message |-> IF raised THEN st.message ELSE EmptyMessage,
              lastEventId |->
                 IF ~raised /\ IsDefined(st.message.id)
                 THEN st.message.id[1] ELSE st.lastEventId,
              delivered |-> Append(st.delivered, msg),
              returned |-> IF raised THEN st.returned ELSE Append(st.returned, msg),
              threw |-> raised,
              abortCalled |-> st.abortCalled \/ (n = cb.abortAt)]
    ELSE [st EXCEPT !.message = EmptyMessage]

(* the blank-line branch assigning lastEventId before it calls onmessage: *)
(* a raise of onmessage comes too late to keep the old id                  *)
EndOfMessage_IdBeforeDispatch(st, cb) ==
    IF IsDefined(st.message.data)
    THEN LET n == Len(st.delivered) + 1
             msg == [id |-> st.message.id, event |-> st.message.event,
                     data |-> st.message.data[1]]
             raised == (n = cb.throwAt)
         IN  [message |-> IF raised THEN st.message ELSE EmptyMessage,
              lastEventId |->
                 IF IsDefined(st.message.id) /\ st.message.id[1] # <<>>
                 THEN st.message.id[1] ELSE st.lastEventId,
              delivered |-> Append(st.delivered, msg),
              returned |-> IF raised THEN st.returned ELSE Append(st.returned, msg),
              threw |-> raised,
              abortCalled |-> st.abortCalled \/ (n = cb.abortAt)]
    ELSE [st EXCEPT !.message = EmptyMessage]

(* the blank-line branch without the test of message.data: every blank    *)
(* line delivers what has been collected, data undefined included          *)
EndOfMessage_NoDataCheck(st, cb) ==
    LET n == Len(st.delivered) + 1
        msg == [id |-> st.message.id, event |-> st.message.event,
                data |-> IF IsDefined(st.message.data)
                         THEN st.message.data[1] ELSE <<>>]
        raised == (n = cb.throwAt)
    IN  [message |-> IF raised THEN st.message ELSE EmptyMessage,
         lastEventId |->
            IF ~raised /\ IsDefined(st.message.id) /\ st.message.id[1] # <<>>
            THEN st.message.id[1] ELSE st.lastEventId,
         delivered |-> Append(st.delivered, msg),
         returned |-> IF raised THEN st.returned ELSE Append(st.returned, msg),
         threw |-> raised,
         abortCalled |-> st.abortCalled \/ (n = cb.abortAt)]

(* The blank-line branch: deliver the message if it has data, then update  *)
(* lastEventId unless onmessage raised.                                    *)
EndOfMessage(st, cb) ==
    IF IsDefined(st.message.data)
    THEN LET n == Len(st.delivered) + 1
             msg == [id |-> st.message.id, event |-> st.message.event,
                     data |-> st.message.data[1]]
             raised == (n = cb.throwAt)
         IN  [message |-> IF raised THEN st.message ELSE EmptyMessage,
              lastEventId |->
                 IF ~raised /\ IsDefined(st.message.id) /\ st.message.id[1] # <<>>
                 THEN st.message.id[1] ELSE st.lastEventId,
              delivered |-> Append(st.delivered, msg),
              returned |-> IF raised THEN st.returned ELSE Append(st.returned, msg),
              threw |-> raised,
              abortCalled |-> st.abortCalled \/ (n = cb.abortAt)]
    ELSE [st EXCEPT !.message = EmptyMessage]

RECURSIVE ProcessLines(_, _, _, _)
ProcessLines(lines, i, st, cb) ==
    IF i > Len(lines) \/ st.threw THEN st
    ELSE LET line == lines[i] IN
        IF line = <<CR>> \/ line = <<>>
        THEN ProcessLines(lines, i + 1, EndOfMessage(st, cb), cb)
        ELSE IF StartsWith(line, COLON)
        THEN ProcessLines(lines, i + 1, st, cb)
        ELSE ProcessLines(lines, i + 1,
                [st EXCEPT !.message = ParseField(st.message, line)], cb)

(* handleChunk with buffer = text instead of buffer += text: the carried   *)
(* partial line is lost                                                    *)
handleChunk_NoCarry(kind, buf, lei, bytes, cb) ==
    LET text == Decode(kind, bytes)
        all == Split(text)
        lines == Front(all)
        st == ProcessLines(lines, 1,
                [message |-> EmptyMessage, lastEventId |-> lei,
                 delivered |-> <<>>, returned |-> <<>>,
                 threw |-> FALSE, abortCalled |-> FALSE], cb)
    IN  [buffer |-> IF st.abortCalled THEN <<>> ELSE Last(all),
         lastEventId |-> st.lastEventId,
         delivered |-> st.delivered,
         returned |-> st.returned,
         threw |-> st.threw,
         abortCalled |-> st.abortCalled,
         pending |-> st.message,
         lines |-> lines]

(* One call of handleChunk on the session's buffer and lastEventId.        *)
(* Result: the new buffer and lastEventId, the messages onmessage was      *)
(* invoked with (delivered) and returned from (returned), whether the      *)
(* catch block ran (threw), whether abort() was called from onmessage,     *)
(* the message left under construction (dropped by the code), and the      *)
(* complete lines the loop was given (lines).                              *)
handleChunk(kind, buf, lei, bytes, cb) ==
    LET text == Decode(kind, bytes)
        all == Split(buf \o text)
        lines == Front(all)
        st == ProcessLines(lines, 1,
                [message |-> EmptyMessage, lastEventId |-> lei,
                 delivered |-> <<>>, returned |-> <<>>,
                 threw |-> FALSE, abortCalled |-> FALSE], cb)
    IN  [buffer |-> IF st.abortCalled THEN <<>> ELSE Last(all),
         lastEventId |-> st.lastEventId,
         delivered |-> st.delivered,
         returned |-> st.returned,
         threw |-> st.threw,
         abortCalled |-> st.abortCalled,
         pending |-> st.message,
         lines |-> lines]

----------------------------------------------------------------------------
(* Bounds of the model. *)
MaxAttempts == 4
MaxChunks == 2
MaxBuf == 4
MaxRetryBound == 2

(* maxRetryCount === undefined *)
NoLimit == -1

(* Chunks the transport delivers in the session model:                     *)
(*   "id:1\ndata:a\n\nda", "data:b\n\nid:\ndata:c\n\n", "ta:x\n\n"          *)
ChunkSet ==
    { <<105, 100, 58, 49, 10, 100, 97, 116, 97, 58, 97, 10, 10, 100, 97>>,
      <<100, 97, 116, 97, 58, 98, 10, 10,
        105, 100, 58, 10, 100, 97, 116, 97, 58, 99, 10, 10>>,
      <<116, 97, 58, 120, 10, 10>> }

(* What onmessage does during one chunk. *)
CbSet == [throwAt : 0..2, abortAt : {0}] \cup [throwAt : {0}, abortAt : 0..2]

(* What onerror does when called: its return value (a delay in ms, null   *)
(* or undefined), or a raise; it may also call abort().                    *)
Delays == {0, 500}
OnerrorSet ==
    [ret : {"number"}, d : Delays, abort : {FALSE}]
    \cup [ret : {"null", "undefined", "throw"}, d : {0}, abort : {FALSE}]
    \cup [ret : {"number"}, d : {500}, abort : {TRUE}]

(* Template headers of the caller. *)
HeaderSet == { [k \in {"content-type"} |-> <<106>>] }

VARIABLES
    cfg,          \* the options of fetchEventSource, fixed for a session
    isAborted, requestTask, retryCount, retryTimer, lastEventId, buffer,
    net,          \* the transport's request: <<>> or <<[id, header, phase]>>
    pc,           \* "idle", or "awaitOnclose" while success awaits onclose
    attempts,     \* calls of Taro.request so far
    chunksLeft,   \* chunks the transport may still deliver in this session
    obs,          \* history: what the session has done so far
    ev,           \* history: the last handler that ran, its input and effects
    pure          \* the run of a pure function (parser / decoder relations)

sessionVars == <<cfg, isAborted, requestTask, retryCount, retryTimer,
                 lastEventId, buffer, net, pc, attempts, chunksLeft, obs, ev>>
vars == <<cfg, isAborted, requestTask, retryCount, retryTimer,
          lastEventId, buffer, net, pc, attempts, chunksLeft, obs, ev, pure>>

Null == <<>>

(* The closure variables of fetchEventSource, with the effects a handler   *)
(* run has on the outside: user callbacks invoked (cbs), the request       *)
(* opened (opened: its header), requestTask.abort() called (cancelled),    *)
(* an exception leaving the handler (escaped), the success handler left    *)
(* suspended at its await (suspended), scheduleRetry refusing for the      *)
(* budget (budgetHit), the catch block of handleChunk entered (threw), the *)
(* error of requestTask.abort() logged (logged), user callbacks started    *)
(* after an abort() made inside the handler had returned (late).           *)
S == [isAborted |-> isAborted, requestTask |-> requestTask,
      retryCount |-> retryCount, retryTimer |-> retryTimer,
      lastEventId |-> lastEventId, buffer |-> buffer,
      cbs |-> <<>>, opened |-> Null, cancelled |-> FALSE, escaped |-> FALSE,
      suspended |-> FALSE, budgetHit |-> FALSE,
      delivered |-> <<>>, returned |-> <<>>,
      threw |-> FALSE, logged |-> FALSE, late |-> 0]

----------------------------------------------------------------------------
(* The closures of fetchEventSource as functions of the session record.    *)

Call(s, name) == [s EXCEPT !.cbs = Append(@, name)]

(* abort() without the try/catch around requestTask.abort(): its error    *)
(* leaves abort() before the rest of the cleanup                           *)
abort_NoCatch(s, cancelRaises) ==
    IF cancelRaises /\ IsDefined(s.requestTask)
    THEN [s EXCEPT !.isAborted = TRUE, !.cancelled = TRUE, !.escaped = TRUE]
    ELSE [s EXCEPT !.isAborted = TRUE,
                   !.cancelled = @ \/ IsDefined(s.requestTask),
                   !.requestTask = Null,
                   !.retryTimer = Null,
                   !.buffer = <<>>]

(* abort(): cancelRaises says that requestTask.abort() raises; the error   *)
(* is caught and logged.                                                   *)
abort(s, cancelRaises) ==
    [s EXCEPT !.isAborted = TRUE,
              !.cancelled = @ \/ IsDefined(s.requestTask),
              !.logged = @ \/ (cancelRaises /\ IsDefined(s.requestTask)),
              !.requestTask = Null,
              !.retryTimer = Null,
              !.buffer = <<>>]

(* scheduleRetry comparing with > : one retry too many *)
scheduleRetry_OffByOne(s, delayMs) ==
    IF s.isAborted THEN s
    ELSE IF cfg.maxRetryCount # NoLimit /\ s.retryCount > cfg.maxRetryCount
    THEN [s EXCEPT !.budgetHit = TRUE]
    ELSE [s EXCEPT !.retryCount = @ + 1, !.retryTimer = Some(delayMs)]

(* scheduleRetry testing maxRetryCount for truthiness: 0 is no limit *)
scheduleRetry_TruthyLimit(s, delayMs) ==
    IF s.isAborted THEN s
    ELSE IF cfg.maxRetryCount # NoLimit /\ cfg.maxRetryCount # 0
            /\ s.retryCount >= cfg.maxRetryCount
    THEN [s EXCEPT !.budgetHit = TRUE]
    ELSE [s EXCEPT !.retryCount = @ + 1, !.retryTimer = Some(delayMs)]

(* scheduleRetry without its isAborted check *)
scheduleRetry_NoAbortCheck(s, delayMs) ==
    IF cfg.maxRetryCount # NoLimit /\ s.retryCount >= cfg.maxRetryCount
    THEN [s EXCEPT !.budgetHit = TRUE]
    ELSE [s EXCEPT !.retryCount = @ + 1, !.retryTimer = Some(delayMs)]

scheduleRetry(s, delayMs) ==
    IF s.isAborted THEN s
    ELSE IF cfg.maxRetryCount # NoLimit /\ s.retryCount >= cfg.maxRetryCount
    THEN [s EXCEPT !.budgetHit = TRUE]
    ELSE [s EXCEPT !.retryCount = @ + 1, !.retryTimer = Some(delayMs)]

(* onerror?.(err) : the callback runs (and may call abort()) if configured *)
CallOnerror(s, o) ==
    IF ~cfg.hasOnerror THEN s
    ELSE IF o.abort THEN abort(Call(s, "onerror"), FALSE)
    ELSE Call(s, "onerror")

(* retryDelay after the try/catch around onerror?.(err): a raise gives     *)
(* null, no callback gives undefined.                                      *)
RetryDelay(o) ==
    IF cfg.hasOnerror /\ o.ret = "number" THEN Some(o.d) ELSE Null

(* the retry decision testing the delay's truthiness: 0 is no retry *)
RetryOnError_Truthy(s, o) ==
    IF IsDefined(RetryDelay(o)) /\ RetryDelay(o)[1] # 0
    THEN scheduleRetry(s, RetryDelay(o)[1]) ELSE s

(* if (retryDelay != null) scheduleRetry(retryDelay) *)
RetryOnError(s, o) ==
    IF IsDefined(RetryDelay(o)) THEN scheduleRetry(s, RetryDelay(o)[1]) ELSE s

(* header of the request: the template plus last-event-id when non-empty *)
RequestHeaders(lei) ==
    IF lei # <<>>
    THEN [k \in DOMAIN cfg.inputHeaders \cup {LastEventId} |->
            IF k = LastEventId THEN lei ELSE cfg.inputHeaders[k]]
    ELSE cfg.inputHeaders

(* connect() starting each request with an empty carry buffer *)
connect_FreshParser(s, id, throws, o) ==
    IF s.isAborted THEN s
    ELSE IF ~throws
    THEN [s EXCEPT !.requestTask = Some(id),
                   !.opened = Some(RequestHeaders(s.lastEventId)),
                   !.buffer = <<>>]
    ELSE RetryOnError(CallOnerror(s, o), o)

(* connect(): throws says that Taro.request raises synchronously, which    *)
(* leads to the catch block (the error is then no FatalError).             *)
connect(s, id, throws, o) ==
    IF s.isAborted THEN s
    ELSE IF ~throws
    THEN [s EXCEPT !.requestTask = Some(id),
                   !.opened = Some(RequestHeaders(s.lastEventId))]
    ELSE RetryOnError(CallOnerror(s, o), o)

(* the setTimeout callback of scheduleRetry *)
timerCallback(s, id, throws, o) ==
    connect([s EXCEPT !.retryTimer = Null], id, throws, o)

(* success: up to the await of onclose *)
successHandler(s) ==
    IF s.isAborted THEN s
    ELSE [Call(s, "onclose") EXCEPT !.retryCount = 0, !.requestTask = Null,
                                    !.suspended = TRUE]

(* success without the try/catch around the await: an error of onclose    *)
(* ends the handler                                                        *)
successResume_NoCatch(s, raised) ==
    IF raised THEN [s EXCEPT !.escaped = TRUE]
    ELSE IF ~s.isAborted /\ ~cfg.openWhenHidden
    THEN scheduleRetry(s, DefaultRetryInterval) ELSE s

(* success: after the await; an error of onclose is caught and logged *)
successResume(s, raised) ==
    IF ~s.isAborted /\ ~cfg.openWhenHidden
    THEN scheduleRetry(s, DefaultRetryInterval) ELSE s

(* the fail callback without requestTask = null *)
failHandler_KeepTask(s, o) ==
    IF s.isAborted THEN s
    ELSE RetryOnError(CallOnerror(s, o), o)

failHandler(s, o) ==
    IF s.isAborted THEN s
    ELSE RetryOnError(CallOnerror([s EXCEPT !.requestTask = Null], o), o)

(* onHeadersReceived: the FatalError thrown in the async callback rejects  *)
(* the callback's own promise; it never reaches the catch of connect.      *)
headersHandler(s, raised) ==
    IF s.isAborted THEN s
    ELSE [Call(s, "onopen") EXCEPT !.escaped = raised]

(* the catch block of handleChunk written as the one of the fail callback: *)
(* the value onerror returns schedules a retry                             *)
catchChunkError_Retry(s, o) ==
    RetryOnError(CallOnerror(s, o), o)

(* the catch block of handleChunk: onerror?.(err), whose return value is   *)
(* dropped and whose own raise leaves the handler.                         *)
catchChunkError(s, o) ==
    [CallOnerror(s, o) EXCEPT !.escaped = cfg.hasOnerror /\ o.ret = "throw"]

(* The closure variables after the try block of handleChunk gave r: the   *)
(* buffer and lastEventId it assigned, the calls of onmessage it made.     *)
chunkResult(s, r) ==
    [s EXCEPT !.buffer = r.buffer,
              !.lastEventId = r.lastEventId,
              !.delivered = r.delivered,
              !.returned = r.returned,
              !.threw = r.threw,
              !.cbs = [i \in 1..Len(r.delivered) |-> "onmessage"]]

(* abort() called by onmessage on its cb.abortAt-th invocation; the loop   *)
(* went on to the invocations after it.                                    *)
chunkAbort(s, r, cb) ==
    IF r.abortCalled
    THEN [abort(s, FALSE) EXCEPT !.late = Len(r.delivered) - cb.abortAt]
    ELSE s

(* the catch block of handleChunk, entered if the try block raised *)
chunkCatch(s, r, o) ==
    IF r.threw
    THEN [catchChunkError(s, o) EXCEPT
             !.late = IF r.abortCalled /\ cfg.hasOnerror THEN @ + 1 ELSE @]
    ELSE s

(* handleChunk(res) on the session, given the result r of its try block *)
chunkDone(s, r, cb, o) ==
    chunkCatch(chunkAbort(chunkResult(s, r), r, cb), r, o)

(* handleChunk(res) on the session: the messages go to onmessage, which    *)
(* may call abort() (cb.abortAt) or raise (cb.throwAt).                    *)
handleChunkOn(s, bytes, cb, o) ==
    chunkDone(s, handleChunk(cfg.decoder, s.buffer, s.lastEventId, bytes, cb),
              cb, o)

(* the chunk callback without its isAborted check *)
chunkHandler_NoGuard(s, bytes, cb, o) ==
    handleChunkOn(s, bytes, cb, o)

(* onChunkReceived: if (isAborted) return; handleChunk(res) *)
chunkHandler(s, bytes, cb, o) ==
    IF s.isAborted THEN s ELSE handleChunkOn(s, bytes, cb, o)

----------------------------------------------------------------------------
(* The session as a state machine. *)

NoOnerror == [ret |-> "undefined", d |-> 0, abort |-> FALSE]
OnerrorInputs == IF cfg.hasOnerror THEN OnerrorSet ELSE {NoOnerror}

RECURSIVE LastId(_, _)
(* id of the last message of msgs with a non-empty id, else dflt *)
LastId(msgs, dflt) ==
    IF msgs = <<>> THEN dflt
    ELSE LET m == Last(msgs) IN
         IF IsDefined(m.id) /\ m.id[1] # <<>> THEN m.id[1]
         ELSE LastId(Front(msgs), dflt)

PureIdle == [mode |-> "session"]

NoInput == [o |-> NoOnerror, raised |-> FALSE]

(* What is kept of a handler run: the handler, what onerror did and        *)
(* whether the awaited callback (for abort: the transport's cancel)        *)
(* raised, the state it started from and its effects (ids: a message with  *)
(* a non-empty id came back from onmessage).                               *)
Event(h, in, s, s2) ==
    [h |-> h, o |-> in.o, raised |-> in.raised,
     pre |-> [isAborted |-> s.isAborted, retryCount |-> s.retryCount,
              retryTimer |-> s.retryTimer, lastEventId |-> s.lastEventId],
     cbs |-> s2.cbs, budgetHit |-> s2.budgetHit, escaped |-> s2.escaped,
     opened |-> IsDefined(s2.opened),
     ids |-> LastId(s2.returned, <<>>) # <<>>,
     threw |-> s2.threw, late |-> s2.late]

CfgSet == [maxRetryCount : {NoLimit} \cup 0..MaxRetryBound,
           openWhenHidden : BOOLEAN,
           inputHeaders : HeaderSet,
           hasOnerror : BOOLEAN,
           decoder : {"TextDecoder"}]

(* The closure variables as fetchEventSource declares them, before its     *)
(* first connect().                                                        *)
SessionInit(first) ==
    /\ isAborted = FALSE
    /\ requestTask = Null
    /\ retryCount = 0
    /\ retryTimer = Null
    /\ lastEventId = <<>>
    /\ buffer = <<>>
    /\ net = <<>>
    /\ pc = "idle"
    /\ attempts = 0
    /\ chunksLeft = MaxChunks
    /\ obs = [fatal |-> FALSE, afterFatal |-> FALSE, sinceClose |-> 0,
              ends |-> 0, idDelivered |-> <<>>, idReturned |-> <<>>]
    /\ ev = Event(first, NoInput, S, S)

Init ==
    /\ cfg \in CfgSet
    /\ SessionInit("init")
    /\ pure = PureIdle

(* A handler h ran on input in from the state S and left s2; net1 is the   *)
(* transport's request after the signal that started the handler.          *)
Commit(h, in, s2, net1) ==
    /\ isAborted' = s2.isAborted
    /\ requestTask' = s2.requestTask
    /\ retryCount' = s2.retryCount
    /\ retryTimer' = s2.retryTimer
    /\ lastEventId' = s2.lastEventId
    /\ buffer' = s2.buffer
    /\ net' = IF IsDefined(s2.opened)
              THEN <<[id |-> attempts + 1, header |-> s2.opened[1],
                      phase |-> "sent", cancelled |-> FALSE]>>
              ELSE IF s2.cancelled /\ net1 # <<>>
              THEN <<[net1[1] EXCEPT !.cancelled = TRUE]>>
              ELSE net1
    /\ pc' = IF s2.suspended THEN "awaitOnclose"
             ELSE IF h = "resume" THEN "idle" ELSE pc
    /\ attempts' = IF h \in {"connect", "timer"} /\ ~isAborted
                   THEN attempts + 1 ELSE attempts
    /\ chunksLeft' = IF h = "chunk" THEN chunksLeft - 1 ELSE chunksLeft
    /\ obs' = [fatal |-> obs.fatal \/ (h = "headers" /\ s2.escaped),
               afterFatal |-> obs.afterFatal \/ (obs.fatal /\ s2.cbs # <<>>),
               sinceClose |->
                   IF h \in {"connect", "timer"} /\ ~isAborted
                   THEN obs.sinceClose + 1
                   ELSE IF h = "success" /\ ~isAborted THEN 0
                   ELSE obs.sinceClose,
               ends |->
                   IF ~isAborted /\ (h = "success"
                        \/ (h = "fail" /\ IsDefined(RetryDelay(in.o))))
                   THEN obs.ends + 1 ELSE obs.ends,
               idDelivered |-> LastId(s2.delivered, obs.idDelivered),
               idReturned |-> LastId(s2.returned, obs.idReturned)]
    /\ ev' = Event(h, in, S, s2)
    /\ UNCHANGED <<cfg, pure>>

(* connect() at the end of fetchEventSource; the caller has no handle yet, *)
(* so onerror cannot call abort() here                                     *)
Start ==
    /\ pure = PureIdle
    /\ ev.h = "init"
    /\ \E throws \in BOOLEAN :
       \E o \in (IF throws THEN OnerrorInputs ELSE {NoOnerror}) :
          /\ ~o.abort
          /\ throws => attempts + 1 < MaxAttempts
          /\ \E s2 \in {connect(S, attempts + 1, throws, o)} :
                Commit("connect", [o |-> o, raised |-> FALSE], s2, net)

(* the retry timer expires *)
TimerFire ==
    /\ IsDefined(retryTimer)
    /\ \E throws \in BOOLEAN :
       \E o \in (IF throws THEN OnerrorInputs ELSE {NoOnerror}) :
          /\ throws => attempts + 1 < MaxAttempts
          /\ \E s2 \in {timerCallback(S, attempts + 1, throws, o)} :
                Commit("timer", [o |-> o, raised |-> FALSE], s2, net)

(* transport signal: headers received (once, before any chunk) *)
OnHeadersReceived ==
    /\ net # <<>> /\ net[1].phase = "sent"
    /\ \E raised \in BOOLEAN :
       \E s2 \in {headersHandler(S, raised)} :
          Commit("headers", [o |-> NoOnerror, raised |-> raised], s2, <<[net[1] EXCEPT !.phase = "headers"]>>)

(* transport signal: a chunk *)
OnChunkReceived ==
    /\ net # <<>> /\ net[1].phase = "headers"
    /\ chunksLeft > 0
    /\ \E bytes \in ChunkSet :
       \E cb \in (IF isAborted THEN {NoCb} ELSE CbSet) :
       \E o \in (IF cb.throwAt > 0 THEN OnerrorInputs ELSE {NoOnerror}) :
       \E s2 \in {chunkHandler(S, bytes, cb, o)} :
       /\ Len(s2.buffer) <= MaxBuf
       \* an input names only invocations of onmessage that happen
       /\ cb.throwAt <= Len(s2.delivered) /\ cb.abortAt <= Len(s2.delivered)
       /\ Commit("chunk", [o |-> o, raised |-> FALSE], s2, net)

(* transport signal: completed *)
OnSuccess ==
    /\ net # <<>> /\ net[1].phase = "headers"
    /\ attempts < MaxAttempts
    /\ \E s2 \in {successHandler(S)} :
          Commit("success", NoInput, s2, <<[net[1] EXCEPT !.phase = "ended"]>>)

(* the awaited onclose settles and the success handler goes on *)
OncloseSettled ==
    /\ pc = "awaitOnclose"
    /\ \E raised \in BOOLEAN :
       \E s2 \in {successResume(S, raised)} :
          Commit("resume", [o |-> NoOnerror, raised |-> raised], s2, net)

(* transport signal: failed (before or after the headers) *)
OnFail ==
    /\ net # <<>> /\ net[1].phase \in {"sent", "headers"}
    /\ attempts < MaxAttempts
    /\ \E o \in (IF isAborted THEN {NoOnerror} ELSE OnerrorInputs) :
       \E s2 \in {failHandler(S, o)} :
          Commit("fail", [o |-> o, raised |-> FALSE], s2, <<[net[1] EXCEPT !.phase = "ended"]>>)

(* the caller uses the returned handle; the transport's cancel may raise *)
Abort ==
    /\ pure = PureIdle
    /\ attempts > 0
    /\ \E cancelRaises \in BOOLEAN :
          /\ cancelRaises => IsDefined(requestTask)
          /\ \E s2 \in {abort(S, cancelRaises)} :
                Commit("abort", [o |-> NoOnerror, raised |-> cancelRaises],
                       s2, net)

Next ==
    \/ Start
    \/ TimerFire
    \/ OnHeadersReceived
    \/ OnChunkReceived
    \/ OnSuccess
    \/ OncloseSettled
    \/ OnFail
    \/ Abort

Spec == Init /\ [][Next]_vars

(* The timer of setTimeout does expire. *)
FairSpec == Init /\ [][Next]_vars /\ WF_vars(TimerFire)

----------------------------------------------------------------------------
(* Relations of the pure functions: the chunk handler fed one text in      *)
(* pieces, and a decoder fed one byte sequence in two pieces.              *)

MaxLines == 3
MaxChars == 2

RECURSIVE Flatten(_)
Flatten(ss) == IF ss = <<>> THEN <<>> ELSE Head(ss) \o Flatten(Tail(ss))

Concats(parts, n) ==
    { Flatten(q) : q \in UNION { [1..m -> parts] : m \in 1..n } }

(* "data:a\n", "id:1\n", "event:e\n", "\n" *)
LineSet ==
    { <<100, 97, 116, 97, 58, 97, 10>>,
      <<105, 100, 58, 49, 10>>,
      <<101, 118, 101, 110, 116, 58, 101, 10>>,
      <<10>> }

(* UTF-8 of "a", U+00E9, U+20AC, U+1F600 *)
Utf8CharSet ==
    { <<97>>, <<195, 169>>, <<226, 130, 172>>, <<240, 159, 152, 128>> }

DefaultCfg == [maxRetryCount |-> NoLimit, openWhenHidden |-> FALSE,
               inputHeaders |-> [k \in {"content-type"} |-> <<106>>],
               hasOnerror |-> TRUE, decoder |-> "TextDecoder"]

InitParse ==
    /\ cfg = DefaultCfg
    /\ SessionInit("pure")
    /\ \E text \in Concats(LineSet, MaxLines) :
          pure = [mode |-> "parse", text |-> text, rest |-> text,
                  buffer |-> <<>>, lastEventId |-> <<>>, delivered |-> <<>>,
                  lines |-> <<>>, chunks |-> 0]

(* the next chunk of the text arrives: any non-empty prefix of the rest *)
FeedChunk ==
    /\ pure.mode = "parse"
    /\ \E k \in 1..Len(pure.rest) :
       \E r \in {handleChunk(cfg.decoder, pure.buffer, pure.lastEventId,
                             SubSeq(pure.rest, 1, k), NoCb)} :
          pure' = [pure EXCEPT
                     !.rest = SubSeq(pure.rest, k + 1, Len(pure.rest)),
                     !.buffer = r.buffer,
                     !.lastEventId = r.lastEventId,
                     !.delivered = @ \o r.delivered,
                     !.lines = @ \o r.lines,
                     !.chunks = @ + 1]
    /\ UNCHANGED sessionVars

SpecParse == InitParse /\ [][FeedChunk]_vars

InitDecode ==
    /\ cfg = DefaultCfg
    /\ SessionInit("pure")
    /\ \E bytes \in Concats(Utf8CharSet, MaxChars) :
       \E kind \in {"TextDecoder", "manual"} :
          pure = [mode |-> "decode", kind |-> kind, bytes |-> bytes,
                  rest |-> bytes, out |-> <<>>, chunks |-> 0, at |-> 0]

(* the first chunk: the bytes before offset k *)
DecodeFirst ==
    /\ pure.mode = "decode" /\ pure.chunks = 0
    /\ \E k \in 0..Len(pure.bytes) :
          pure' = [pure EXCEPT
                     !.out = Decode(pure.kind, SubSeq(pure.bytes, 1, k)),
                     !.rest = SubSeq(pure.bytes, k + 1, Len(pure.bytes)),
                     !.chunks = 1, !.at = k]
    /\ UNCHANGED sessionVars

(* the second chunk: the remaining bytes *)
DecodeRest ==
    /\ pure.mode = "decode" /\ pure.chunks = 1
    /\ pure' = [pure EXCEPT
                  !.out = @ \o Decode(pure.kind, pure.rest),
                  !.rest = <<>>, !.chunks = 2]
    /\ UNCHANGED sessionVars

NextDecode == DecodeFirst \/ DecodeRest

SpecDecode == InitDecode /\ [][NextDecode]_vars

MaxPieces == 3

(* Pieces of a chunk with the text a decoder that skips malformed bytes    *)
(* gives for them: UTF-8 of "a", U+00E9, U+20AC; the invalid leading byte  *)
(* 0xFF; the leading byte 0xC3 without its continuation byte.              *)
PieceSet ==
    { [bytes |-> <<97>>, text |-> <<97>>],
      [bytes |-> <<195, 169>>, text |-> <<233>>],
      [bytes |-> <<226, 130, 172>>, text |-> <<8364>>],
      [bytes |-> <<255>>, text |-> <<>>],
      [bytes |-> <<195>>, text |-> <<>>] }

PieceBytes(ps) == Flatten([i \in DOMAIN ps |-> ps[i].bytes])
PieceText(ps) == Flatten([i \in DOMAIN ps |-> ps[i].text])

InitMalformed ==
    /\ cfg = DefaultCfg
    /\ SessionInit("pure")
    /\ \E ps \in UNION { [1..m -> PieceSet] : m \in 1..MaxPieces } :
          pure = [mode |-> "malformed", pieces |-> ps, out |-> <<>>,
                  done |-> FALSE]

(* the manual decoder is applied to the chunk *)
DecodeMalformed ==
    /\ pure.mode = "malformed" /\ ~pure.done
    /\ pure' = [pure EXCEPT !.out = uint8ArrayToUtf8(PieceBytes(pure.pieces)),
                            !.done = TRUE]
    /\ UNCHANGED sessionVars

SpecMalformed == InitMalformed /\ [][DecodeMalformed]_vars

MaxRecords == 2

(* Records of a chunk: "data:a\n\n", "id:1\ndata:b\n\n", "id:2\n\n" *)
RecordSet ==
    { <<100, 97, 116, 97, 58, 97, 10, 10>>,
      <<105, 100, 58, 49, 10, 100, 97, 116, 97, 58, 98, 10, 10>>,
      <<105, 100, 58, 50, 10, 10>> }

(* the partial line a chunk may end with: none or "da" *)
TailSet == { <<>>, <<100, 97>> }

(* the session a chunk arrives in: a request is open, lastEventId is lei *)
Receiving(lei) == [S EXCEPT !.requestTask = Some(1), !.lastEventId = lei]

InitDispatch ==
    /\ cfg = DefaultCfg
    /\ SessionInit("pure")
    /\ \E text \in Concats(RecordSet, MaxRecords) :
       \E tail \in TailSet :
       \E lei \in {<<>>, <<48>>} :
       \E cb \in [throwAt : 0..MaxRecords, abortAt : {0}] :
       \E o \in (IF cb.throwAt > 0 THEN OnerrorSet ELSE {NoOnerror}) :
          \* an input names only invocations of onmessage that happen
          /\ cb.throwAt <= Len(handleChunk(cfg.decoder, <<>>, lei,
                                           text \o tail, NoCb).delivered)
          /\ pure = [mode |-> "dispatch", bytes |-> text \o tail,
                     lei |-> lei, cb |-> cb, o |-> o,
                     done |-> FALSE, res |-> Receiving(lei)]

(* the chunk arrives: the onChunkReceived callback runs *)
DispatchChunk ==
    /\ pure.mode = "dispatch" /\ ~pure.done
    /\ pure' = [pure EXCEPT
                  !.res = chunkHandler(Receiving(pure.lei), pure.bytes,
                                       pure.cb, pure.o),
                  !.done = TRUE]
    /\ UNCHANGED sessionVars

SpecDispatch == InitDispatch /\ [][DispatchChunk]_vars

----------------------------------------------------------------------------
(* C1: feeding an SSE text to the chunk handler in any split into          *)
(* consecutive chunks delivers the same sequence of messages to onmessage  *)
(* as feeding it as one chunk.                                             *)
C1_ChunkingIndependent ==
    (pure.mode = "parse" /\ pure.rest = <<>>) =>
        pure.delivered =
            handleChunk(cfg.decoder, <<>>, <<>>, pure.text, NoCb).delivered

(* C9: decoding a valid UTF-8 byte sequence in two chunks split at any     *)
(* byte offset and concatenating gives the text of decoding it at once.    *)
C9_DecodeSplitIndependent ==
    (pure.mode = "decode" /\ pure.chunks = 2) =>
        pure.out = Decode(pure.kind, pure.bytes)

----------------------------------------------------------------------------
(* Claims about the session. *)

(* C2: once the user's onopen has raised on the headers, the session is    *)
(* aborted for good: aborted is true, the request is cancelled, no retry   *)
(* is pending and no user callback runs afterwards.                        *)
C2_OnopenRaiseAborts ==
    obs.fatal =>
        /\ isAborted
        /\ requestTask = Null
        /\ retryTimer = Null
        /\ ~obs.afterFatal

(* C3 as stated: with maxRetryCount = 2, once two attempts have ended (by  *)
(* a failure answered with a delay, or by a clean close) there is no       *)
(* third attempt.                                                          *)
C3_NoThirdAttempt ==
    (cfg.maxRetryCount = 2 /\ obs.ends >= 2) => attempts <= 2

(* C3 amended: with maxRetryCount = 2 at most three attempts are made      *)
(* without a clean close in between (the first and two retries), and a     *)
(* refused retry arms no timer and calls nothing beyond the onerror or     *)
(* onclose that led to it.                                                 *)
C3_RetryBudget ==
    cfg.maxRetryCount = 2 =>
        /\ obs.sinceClose <= 3
        /\ retryCount <= 2
        /\ ev.budgetHit =>
              /\ retryTimer = Null
              /\ ev.pre.retryCount = IF ev.h = "resume" THEN 0 ELSE 2
              /\ ev.cbs = IF ev.h = "resume" \/ ~cfg.hasOnerror
                          THEN <<>> ELSE <<"onerror">>

C3_Witness ==
    /\ cfg.maxRetryCount = 2
    /\ ev.h = "fail" /\ ev.budgetHit
    /\ obs.sinceClose = 3

(* C4: a transport signal or timer expiry handled after abort() invokes    *)
(* no user callback and leaves aborted true.                               *)
C4_AbortFinality ==
    ev.pre.isAborted => (ev.cbs = <<>> /\ isAborted)

C4_Witness ==
    /\ ev.h = "chunk" /\ ev.pre.isAborted
    /\ net # <<>> /\ net[1].cancelled

(* C5: once aborted, always aborted: no request is opened, no timer is     *)
(* armed, and a further abort() changes nothing.                           *)
C5_AbortedMonotonic ==
    [][isAborted =>
        /\ isAborted'
        /\ attempts' = attempts
        /\ requestTask' = Null
        /\ retryTimer' = Null
        /\ ~ev'.opened
        /\ (ev'.h = "abort" =>
              UNCHANGED <<requestTask, retryCount, retryTimer, lastEventId,
                          buffer, net, pc>>)]_vars

(* abort() came while the success handler was awaiting onclose *)
C5_Witness ==
    /\ ev.h = "resume" /\ ev.pre.isAborted
    /\ ~cfg.openWhenHidden
    /\ retryTimer = Null

(* The header connect sends when the last id known is id. *)
HeaderFor(id) ==
    IF id # <<>>
    THEN [k \in DOMAIN cfg.inputHeaders \cup {"last-event-id"} |->
            IF k = "last-event-id" THEN id ELSE cfg.inputHeaders[k]]
    ELSE cfg.inputHeaders

(* C6 as stated: a connect attempt sends last-event-id = X for the last    *)
(* non-empty id X that onmessage was invoked with.                         *)
C6_HeaderOfDeliveredId ==
    ev.opened => net[1].header = HeaderFor(obs.idDelivered)

(* C6 amended: lastEventId is the last non-empty id of a message that      *)
(* onmessage returned from; every connect attempt sends it as              *)
(* last-event-id, and sends the template headers alone while it is empty;  *)
(* a chunk whose messages carry no id or an empty id leaves it unchanged.  *)
C6_LastEventIdPropagation ==
    /\ lastEventId = obs.idReturned
    /\ ev.opened => net[1].header = HeaderFor(obs.idReturned)
    /\ (ev.opened /\ lastEventId = <<>>) => net[1].header = cfg.inputHeaders
    /\ (ev.h = "chunk" /\ ~ev.ids) => lastEventId = ev.pre.lastEventId

(* a reconnect after the id "1" was followed by messages without an id *)
C6_Witness ==
    /\ ev.opened /\ ev.h = "timer"
    /\ obs.idReturned = <<49>>
    /\ chunksLeft = 0
    /\ net[1].header["last-event-id"] = <<49>>

BudgetLeft(rc) == cfg.maxRetryCount = NoLimit \/ rc < cfg.maxRetryCount

(* C7 as stated: after a clean close of a session that is not aborted and  *)
(* has openWhenHidden = false, a reconnect is pending with the default     *)
(* interval.                                                               *)
C7_CleanCloseReconnects ==
    (ev.h = "resume" /\ ~isAborted /\ ~cfg.openWhenHidden) =>
        retryTimer = Some(DefaultRetryInterval)

(* C7 amended, state part: completion resets retryCount and calls onclose  *)
(* once; when onclose has settled (raising or not) nothing more is called  *)
(* and nothing escapes, and a reconnect is armed with the default interval *)
(* exactly if openWhenHidden is false and maxRetryCount is not 0.          *)
C7_CloseStep ==
    /\ (ev.h = "success" /\ ~ev.pre.isAborted) =>
          /\ retryCount = 0
          /\ requestTask = Null
          /\ ev.cbs = <<"onclose">>
          /\ pc = "awaitOnclose"
    /\ (ev.h = "resume" /\ ~isAborted) =>
          /\ ev.cbs = <<>> /\ ~ev.escaped
          /\ IF ~cfg.openWhenHidden /\ BudgetLeft(0)
             THEN retryTimer = Some(DefaultRetryInterval) /\ retryCount = 1
             ELSE retryTimer = Null /\ retryCount = 0

(* C7 amended: the state part always holds and an armed reconnect leads    *)
(* to the timer callback running connect() on the session, still not      *)
(* aborted, unless abort() comes first.                                    *)
C7_CleanClose ==
    /\ []C7_CloseStep
    /\ (retryTimer = Some(DefaultRetryInterval))
          ~> ((ev.h = "timer" /\ ~ev.pre.isAborted) \/ isAborted)

(* onclose raised and the reconnect was armed all the same *)
C7_Witness ==
    /\ ev.h = "resume" /\ ev.raised
    /\ retryTimer = Some(DefaultRetryInterval)
    /\ retryCount = 1

FailureStep ==
    /\ ~ev.pre.isAborted
    /\ ev.h = "fail" \/ (ev.h \in {"connect", "timer"} /\ ~ev.opened)

(* C8 as stated: after a transport failure of a session that is not        *)
(* aborted the outcome of onerror alone decides: a number d arms one retry *)
(* after d, anything else arms none.                                       *)
C8_OnerrorAloneDecides ==
    (ev.h = "fail" /\ ~ev.pre.isAborted /\ ~isAborted) =>
        retryTimer = RetryDelay(ev.o)

(* C8 amended: on a failure onerror is called once if configured and       *)
(* nothing escapes; a number d arms one retry after d unless the retry     *)
(* budget is used up or onerror called abort(); null, undefined, a raise   *)
(* or no onerror arm none.                                                 *)
C8_OnerrorDecidesWithinBudget ==
    FailureStep =>
        /\ ev.cbs = IF cfg.hasOnerror THEN <<"onerror">> ELSE <<>>
        /\ ~ev.escaped
        /\ IF IsDefined(RetryDelay(ev.o)) /\ ~ev.o.abort
                /\ BudgetLeft(ev.pre.retryCount)
           THEN retryTimer = RetryDelay(ev.o)
                /\ retryCount = ev.pre.retryCount + 1
           ELSE retryTimer = Null /\ retryCount = ev.pre.retryCount

(* onerror returned 0 and the retry was armed with delay 0 *)
C8_Witness ==
    /\ ev.h = "fail" /\ ~ev.pre.isAborted
    /\ ev.o.ret = "number" /\ ev.o.d = 0
    /\ retryTimer = Some(0)

(* C10: after the headers arrived and onopen completed without raising,    *)
(* retryCount is 0.                                                        *)
C10_ResetOnOpen ==
    (ev.h = "headers" /\ ~ev.pre.isAborted /\ ~ev.raised) => retryCount = 0

(* how often the callback name was invoked *)
Count(cbs, name) == Cardinality({i \in DOMAIN cbs : cbs[i] = name})

(* the handler of a chunk in which processing raised *)
C11_ChunkErrorStep ==
    (ev'.h = "chunk" /\ ev'.threw) =>
        /\ Count(ev'.cbs, "onerror") = IF cfg.hasOnerror THEN 1 ELSE 0
        /\ ~ev'.o.abort =>
              UNCHANGED <<isAborted, requestTask, retryCount, retryTimer>>

(* the chunk that follows one in which processing raised *)
C11_NextChunk ==
    (ev.h = "chunk" /\ ev.threw /\ ~isAborted /\ ev'.h = "chunk") =>
        \/ ev'.cbs # <<>>
        \/ buffer = <<>> /\ buffer' = <<>>

(* C11: an error raised while a chunk is processed is reported to onerror  *)
(* exactly once (when onerror is configured) and does not tear the session *)
(* down: aborted, requestTask, retryCount and retryTimer are unchanged     *)
(* whatever onerror returns or raises (unless onerror itself calls         *)
(* abort()), so no retry is scheduled, and the next chunk of the attempt   *)
(* is processed.                                                           *)
C11_ChunkErrorContained ==
    [][C11_ChunkErrorStep /\ C11_NextChunk]_vars

(* onerror answered a chunk error with a delay and no retry was armed *)
C11_Witness ==
    /\ ev.h = "chunk" /\ ev.threw
    /\ ev.o.ret = "number" /\ ev.o.d = 500 /\ ~ev.o.abort
    /\ ~isAborted /\ IsDefined(requestTask) /\ retryTimer = Null
    /\ ev.cbs = <<"onmessage", "onerror">>

(* C12: when the transport's cancel raises during abort(), nothing is     *)
(* surfaced (no exception leaves abort(), no callback is invoked) and the  *)
(* cleanup is complete: aborted is true, the request handle is dropped,    *)
(* no retry timer is pending and the carry buffer is empty.                *)
C12_AbortSwallowsCancelError ==
    (ev.h = "abort" /\ ev.raised) =>
        /\ ~ev.escaped
        /\ ev.cbs = <<>>
        /\ isAborted
        /\ requestTask = Null
        /\ retryTimer = Null
        /\ buffer = <<>>

(* the cancel of a request that had delivered a chunk raised *)
C12_Witness ==
    /\ ev.h = "abort" /\ ev.raised /\ ~ev.pre.isAborted
    /\ net # <<>> /\ net[1].phase = "headers" /\ net[1].cancelled
    /\ chunksLeft < MaxChunks
    /\ requestTask = Null /\ buffer = <<>>

----------------------------------------------------------------------------
(* Claims about the parser. *)

(* the part of the text fed so far *)
Consumed == SubSeq(pure.text, 1, Len(pure.text) - Len(pure.rest))

IsBlank(line) == line = <<>> \/ line = <<CR>>

IsDataLine(line) ==
    \/ line = FieldData
    \/ Len(line) > 4 /\ SubSeq(line, 1, 5) = FieldData \o <<COLON>>

(* the blank lines of lines that end a record with a data line *)
DataRecords(lines) ==
    { i \in DOMAIN lines :
        /\ IsBlank(lines[i])
        /\ \E j \in 1..(i - 1) :
              /\ IsDataLine(lines[j])
              /\ \A k \in j..(i - 1) : ~IsBlank(lines[k]) }

(* C13: every message delivered to onmessage has data (one line or more,   *)
(* each ended by a newline); a record without a data line delivers        *)
(* nothing and leaves lastEventId alone: no more messages are delivered    *)
(* than the text has records with a data line (as many, when the text      *)
(* comes as one chunk), and lastEventId is the last non-empty id of a      *)
(* delivered message.                                                      *)
C13_BlankDataDiscard ==
    pure.mode = "parse" =>
        /\ \A i \in DOMAIN pure.delivered :
              /\ pure.delivered[i].data # <<>>
              /\ Last(pure.delivered[i].data) = NL
        /\ Len(pure.delivered)
              <= Cardinality(DataRecords(Front(Split(Consumed))))
        /\ (pure.chunks = 1 /\ pure.rest = <<>>) =>
              Len(pure.delivered)
                = Cardinality(DataRecords(Front(Split(pure.text))))
        /\ pure.lastEventId = LastId(pure.delivered, <<>>)

(* "id:1\nevent:e\n\n" was fed and nothing was delivered *)
C13_Witness ==
    /\ pure.mode = "parse" /\ pure.rest = <<>>
    /\ pure.text = <<105, 100, 58, 49, 10,
                     101, 118, 101, 110, 116, 58, 101, 10, 10>>
    /\ pure.delivered = <<>>
    /\ pure.lastEventId = <<>>

(* C15: whatever the placement of the chunk boundaries, the complete      *)
(* lines given to the parser over the chunks so far are the text received  *)
(* so far split on "\n" without its last segment, and the carry buffer is  *)
(* that last, unterminated segment.                                        *)
C15_LineSequence ==
    pure.mode = "parse" =>
        /\ pure.lines = Front(Split(Consumed))
        /\ pure.buffer = Last(Split(Consumed))

(* a text of three lines arrived one character per chunk *)
C15_Witness ==
    /\ pure.mode = "parse" /\ pure.rest = <<>>
    /\ pure.chunks = Len(pure.text)
    /\ Len(pure.lines) = 3
    /\ pure.lines[1] = <<100, 97, 116, 97, 58, 97>>
    /\ pure.buffer = <<>>

(* C17: the manual decoder skips a malformed byte and goes on: its output *)
(* for a chunk is the text of the valid byte sequences of the chunk, in    *)
(* order, whatever invalid leading bytes or leading bytes with an invalid  *)
(* continuation byte stand between them.                                   *)
C17_MalformedSkipped ==
    (pure.mode = "malformed" /\ pure.done) =>
        pure.out = PieceText(pure.pieces)

(* what onmessage is invoked with when it never raises *)
AllMessages ==
    handleChunk(cfg.decoder, <<>>, pure.lei, pure.bytes, NoCb).delivered

(* C20: when onmessage raises on the k-th message of a chunk, the          *)
(* processing of the chunk stops there: onmessage has been invoked for the *)
(* first k messages only, lastEventId is the last non-empty id among the   *)
(* first k - 1 (the id of the k-th is not taken), the lines after the      *)
(* k-th message are dropped, the carry buffer holding only the trailing    *)
(* partial line (nothing, if onerror calls abort()), and onerror is        *)
(* invoked once.                                                           *)
C20_StopsAtRaise ==
    (pure.mode = "dispatch" /\ pure.done /\ pure.cb.throwAt > 0) =>
        LET k == pure.cb.throwAt IN
        /\ pure.res.threw
        /\ pure.res.delivered = SubSeq(AllMessages, 1, k)
        /\ pure.res.returned = SubSeq(AllMessages, 1, k - 1)
        /\ pure.res.lastEventId
              = LastId(SubSeq(AllMessages, 1, k - 1), pure.lei)
        /\ pure.res.buffer
              = IF pure.o.abort THEN <<>> ELSE Last(Split(pure.bytes))
        /\ pure.res.cbs = [i \in 1..(k + 1) |->
                             IF i <= k THEN "onmessage" ELSE "onerror"]

(* onmessage raised on the first of two messages, which carried id "1";    *)
(* the chunk ended in the partial line "da"                                *)
C20_Witness ==
    /\ pure.mode = "dispatch" /\ pure.done
    /\ pure.cb.throwAt = 1 /\ Len(AllMessages) = 2
    /\ AllMessages[1].id = <<<<49>>>>
    /\ pure.lei = <<48>>
    /\ pure.res.lastEventId = <<48>>
    /\ pure.res.buffer = <<100, 97>>
    /\ Len(pure.res.delivered) = 1

----------------------------------------------------------------------------
(* Further claims about the session. *)

(* the transport has a request that may still deliver a signal *)
InFlight ==
    net # <<>> /\ net[1].phase \in {"sent", "headers"} /\ ~net[1].cancelled

C14_Phases ==
    /\ IsDefined(requestTask) <=> InFlight
    /\ InFlight => requestTask = Some(net[1].id)
    /\ ~(InFlight /\ IsDefined(retryTimer))

C14_PhaseStep ==
    /\ ev'.opened => (~InFlight /\ retryTimer' = Null)
    /\ retryCount' = retryCount + 1 =>
          /\ IsDefined(retryTimer')
          /\ retryTimer = Null \/ ev'.h = "timer"

C16_NoCallbackAfterAbort ==
    /\ ev.pre.isAborted => ev.cbs = <<>>
    /\ ev.late = 0

(* C18: with maxRetryCount = N configured, retryCount stays within 0..N   *)
(* and at most N + 1 connect attempts are made from the start of the       *)
(* session or since the last clean close.                                  *)
C18_RetryCountBounded ==
    /\ retryCount >= 0
    /\ cfg.maxRetryCount # NoLimit =>
          /\ retryCount <= cfg.maxRetryCount
          /\ obs.sinceClose <= cfg.maxRetryCount + 1

(* with N = 1 the second attempt has failed and the retry was refused *)
C18_Witness ==
    /\ cfg.maxRetryCount = 1
    /\ retryCount = 1 /\ obs.sinceClose = 2
    /\ ev.h = "fail" /\ ev.budgetHit
    /\ retryTimer = Null

(* a step in which abort() is called, by the caller or from a callback *)
AbortCalled == isAborted' /\ ~isAborted

C19_BufferStep ==
    /\ (ev'.h # "chunk" /\ ~AbortCalled) => buffer' = buffer
    /\ (ev'.h = "chunk" /\ ~isAborted /\ ~isAborted') =>
          \E bytes \in ChunkSet :
             buffer' = Last(Split(buffer \o Decode(cfg.decoder, bytes)))

(* C19: the carry buffer is written only by the processing of a chunk and  *)
(* by abort(): completion, failure, the scheduling of a retry, the expiry  *)
(* of the timer, connect and the headers leave it as it is, and a chunk    *)
(* is appended to what the buffer holds, also when that was left by the    *)
(* previous attempt.                                                       *)
C19_BufferFrame ==
    [][C19_BufferStep]_vars

(* the second request is opened while the buffer holds "da" of the first *)
C19_Witness ==
    /\ ev.h = "timer" /\ ev.opened /\ attempts = 2
    /\ buffer = <<100, 97>>
    /\ InFlight

====
